---- MODULE Spec2Model ----
(***************************************************************************)
(* A model of blox: a falling-block game made of a Block (block.ts), a     *)
(* Board (board.ts) and the p5 sketch that drives them (main.ts).          *)
(*                                                                         *)
(* JavaScript arrays are modelled as sequences: the element at JavaScript  *)
(* index j is the element j+1 of the sequence.  A hole of an array and an  *)
(* index past its length both read as Undefined.                           *)
(***************************************************************************)
EXTENDS Integers, Sequences, FiniteSets, TLC

(***************************************************************************)
(* Bounds of the model.                                                    *)
(***************************************************************************)
\* The session's board is Width x Height cells (the program's is 10 x 20).
Width == 7
Height == 3
\* Frames drawn in a session played with every control (Spec), with the
\* stock key (SpecStock) and with the hard drop key (SpecDrop).
MaxFrame == 5
MaxStockFrame == 11
MaxDropFrame == 22
\* Frames drawn in a session played with the stock and reset keys (SpecReset).
MaxResetFrame == 10
\* Frames drawn in a session played with the stock and hard drop keys
\* (SpecStockDrop).
MaxStockDropFrame == 6
\* The gravity tick is called at the frames 0..MaxGravityFrame with
\* 0..MaxDeletedLineCount lines deleted (SpecGravity).
MaxGravityFrame == 120
MaxDeletedLineCount == 4
\* In a session without a player (SpecIdle) the Blocks that are the sketch's
\* Block at the frames 1..MaxIdleFrame are followed.
MaxIdleFrame == 280
\* Frames drawn in a session played with every key and the left button
\* (SpecKeys).
MaxKeyFrame == 13
\* generateRandomBlock draws its block type from 0..MaxBlockType and its
\* rotation from 0..MaxRotation.
MaxBlockType == 1
MaxRotation == 0

(***************************************************************************)
(* Program constants.                                                      *)
(***************************************************************************)
MOVE_KEY_CHECK_FRAME == 3
ROTATION_KEY_CHECK_FRAME == 5
FIX_BLOCK_FRAME_DELAY == 10
DEFAULT_WIDTH == 10
DEFAULT_HEIGHT == 20
\* What reading a hole of an array, or past its end, gives.
Undefined == -1
BLOCK_GENERATE_LOCATION == [x |-> 3, y |-> -1]

oBlock == <<0, 1, 1, 0, 0, 1, 1, 0>>
iBlock == <<0, 0, 0, 0, 2, 2, 2, 2>>
tBlock == <<0, 3, 0, 0, 3, 3, 3, 0>>
lBlock == <<0, 0, 4, 0, 4, 4, 4, 0>>
jBlock == <<5, 0, 0, 0, 5, 5, 5, 0>>
sBlock == <<0, 6, 6, 0, 6, 6, 0, 0>>
zBlock == <<7, 7, 0, 0, 0, 7, 7, 0>>

\* The shape generateBlock gives the block of type blockType (0..6).
BlockTemprate(blockType) ==
  CASE blockType = 0 -> oBlock
    [] blockType = 1 -> iBlock
    [] blockType = 2 -> tBlock
    [] blockType = 3 -> lBlock
    [] blockType = 4 -> jBlock
    [] blockType = 5 -> sBlock
    [] blockType = 6 -> zBlock

(***************************************************************************)
(* Block                                                                   *)
(***************************************************************************)
\* new Block(p, board, {shape}): at the generate location, rotation 0, speed
\* 1.  A speed is kept as a ratio n / d of two integers.
NewBlock(shape) ==
  [shape |-> shape, rotation |-> 0, location |-> BLOCK_GENERATE_LOCATION,
   speed |-> [n |-> 1, d |-> 1]]

\* The value of a variable that holds no Block (null or undefined).
NullBlock ==
  [shape |-> <<>>, rotation |-> 0, location |-> [x |-> 0, y |-> 0],
   speed |-> [n |-> 0, d |-> 1]]

generateBlock(blockType) == NewBlock(BlockTemprate(blockType))

\* generateRandomBlock with its two random draws as parameters.
generateRandomBlock(blockType, rotation) ==
  [generateBlock(blockType) EXCEPT !.rotation = rotation]

\* getRoatatedLocation with the column taken for the row in rotation 3.
getRoatatedLocationSwapped(i, block) ==
  LET by == i \div 4
      bx == i % 4
  IN  CASE block.rotation = 0 ->
             [y |-> by + block.location.y, x |-> bx + block.location.x]
        [] block.rotation = 1 ->
             [y |-> -bx + block.location.y + 2, x |-> by + block.location.x + 1]
        [] block.rotation = 2 ->
             [y |-> -by + block.location.y + 1, x |-> -bx + block.location.x + 3]
        [] block.rotation = 3 ->
             [y |-> by + block.location.y - 1, x |-> -bx + block.location.x + 2]

\* getRoatatedLocation without the anchor's column in rotation 0.
getRoatatedLocationRelative(i, block) ==
  LET by == i \div 4
      bx == i % 4
  IN  CASE block.rotation = 0 -> [y |-> by + block.location.y, x |-> bx]
        [] block.rotation = 1 ->
             [y |-> -bx + block.location.y + 2, x |-> by + block.location.x + 1]
        [] block.rotation = 2 ->
             [y |-> -by + block.location.y + 1, x |-> -bx + block.location.x + 3]
        [] block.rotation = 3 ->
             [y |-> bx + block.location.y - 1, x |-> -by + block.location.x + 2]

\* Block.getRoatatedLocation(i, block), i in 0..7.
getRoatatedLocation(i, block) ==
  LET by == i \div 4
      bx == i % 4
  IN  CASE block.rotation = 0 ->
             [y |-> by + block.location.y, x |-> bx + block.location.x]
        [] block.rotation = 1 ->
             [y |-> -bx + block.location.y + 2, x |-> by + block.location.x + 1]
        [] block.rotation = 2 ->
             [y |-> -by + block.location.y + 1, x |-> -bx + block.location.x + 3]
        [] block.rotation = 3 ->
             [y |-> bx + block.location.y - 1, x |-> -by + block.location.x + 2]

\* {...block, location: {x, y}}
At(block, x, y) == [block EXCEPT !.location = [x |-> x, y |-> y]]

(***************************************************************************)
(* JavaScript arrays                                                       *)
(***************************************************************************)
\* arr[j]
ArrayGet(arr, j) == IF j >= 0 /\ j < Len(arr) THEN arr[j + 1] ELSE Undefined

\* arr[j] = v.  A negative j names a property of the array object, not an
\* element: the elements do not change and no code reads the property back.
\* A j past the end lengthens the array and leaves holes behind it.
ArraySet(arr, j, v) ==
  IF j < 0 THEN arr
  ELSE IF j < Len(arr) THEN [arr EXCEPT ![j + 1] = v]
  ELSE arr \o [k \in 1..(j - Len(arr)) |-> Undefined] \o <<v>>

\* arr.slice(from, to)
ArraySlice(arr, from, to) ==
  LET t == IF to < Len(arr) THEN to ELSE Len(arr)
  IN  IF from >= t THEN <<>> ELSE SubSeq(arr, from + 1, t)

(***************************************************************************)
(* Board                                                                   *)
(***************************************************************************)
\* new Board(p, width, height): the constructor and resetField.  board.block
\* is a reference: "undefined", "block" (the Block the sketch's variable
\* block holds) or "detached" (a Block the sketch no longer holds).
NewBoard(width, height) ==
  [width |-> width, height |-> height,
   field |-> [i \in 1..(height * width + 1) |-> 0],
   block |-> "undefined",
   inGracePeriod |-> FALSE,
   gracePeriodStartFrameCount |-> 0,
   deletedLineCount |-> 0]

RECURSIVE checkBlockFrom(_, _, _)
checkBlockFrom(board, block, i) ==
  IF i >= 8 THEN TRUE
  ELSE IF block.shape[i + 1] = 0 THEN checkBlockFrom(board, block, i + 1)
  ELSE LET loc == getRoatatedLocation(i, block)
           j == loc.y * board.width + loc.x
       IN  IF loc.x < 0 \/ loc.x >= board.width \/ loc.y >= board.height
             THEN FALSE
           ELSE IF j < 0 THEN checkBlockFrom(board, block, i + 1)
           ELSE IF ArrayGet(board.field, j) # 0 THEN FALSE
           ELSE checkBlockFrom(board, block, i + 1)

\* checkBlock with the floor one row too low: y > height for y >= height.
RECURSIVE checkBlockLowFloorFrom(_, _, _)
checkBlockLowFloorFrom(board, block, i) ==
  IF i >= 8 THEN TRUE
  ELSE IF block.shape[i + 1] = 0 THEN checkBlockLowFloorFrom(board, block, i + 1)
  ELSE LET loc == getRoatatedLocation(i, block)
           j == loc.y * board.width + loc.x
       IN  IF loc.x < 0 \/ loc.x >= board.width \/ loc.y > board.height
             THEN FALSE
           ELSE IF j < 0 THEN checkBlockLowFloorFrom(board, block, i + 1)
           ELSE IF ArrayGet(board.field, j) # 0 THEN FALSE
           ELSE checkBlockLowFloorFrom(board, block, i + 1)

checkBlockLowFloor(board, block) == checkBlockLowFloorFrom(board, block, 0)

\* Board.checkBlock(block)
checkBlock(board, block) == checkBlockFrom(board, block, 0)

RECURSIVE fixBlockFrom(_, _, _, _)
fixBlockFrom(field, width, block, i) ==
  IF i >= 8 THEN field
  ELSE IF block.shape[i + 1] % 8 = 0 THEN fixBlockFrom(field, width, block, i + 1)
  ELSE LET loc == getRoatatedLocation(i, block)
           j == loc.y * width + loc.x
       IN  fixBlockFrom(ArraySet(field, j, block.shape[i + 1]), width, block, i + 1)

\* Board.fixBlock(), block being the Block that board.block refers to.
fixBlock(board, block) ==
  [board EXCEPT !.field = fixBlockFrom(board.field, board.width, block, 0)]

\* The test of checkLine's inner loop on line y.
completed(board, y) ==
  \A x \in 0..(board.width - 1) : ArrayGet(board.field, y * board.width + x) # 0

\* The body of "if (completed)": the new field and the count.
deleteLine(board, y) ==
  LET lineIndex == y * board.width
  IN  [board EXCEPT
         !.field = [k \in 1..board.width |-> 0]
                     \o ArraySlice(board.field, 0, lineIndex)
                     \o ArraySlice(board.field, lineIndex + board.width,
                                   Len(board.field)),
         !.deletedLineCount = @ + 1]

\* checkLine's loop from line y: a completed line is deleted and the same y
\* is tested again (y++ and then the loop's y--).
RECURSIVE checkLineFrom(_, _)
checkLineFrom(board, y) ==
  IF y <= 0 THEN board
  ELSE IF completed(board, y) THEN checkLineFrom(deleteLine(board, y), y)
  ELSE checkLineFrom(board, y - 1)

\* Board.checkLine()
checkLine(board) == checkLineFrom(board, board.height)

\* Board.setBlock(block) on the Block `block`, referred to as `ref`, at frame
\* frameCount: the board after the call and what the call returns.
setBlock(board, ref, block, frameCount) ==
  LET b0 == [board EXCEPT !.block = ref]
  IN  IF ~checkBlock(b0, At(block, block.location.x, block.location.y + 1))
        THEN IF ~b0.inGracePeriod
               THEN [board |-> [b0 EXCEPT !.inGracePeriod = TRUE,
                                          !.gracePeriodStartFrameCount = frameCount],
                     fixed |-> FALSE]
             ELSE IF frameCount < b0.gracePeriodStartFrameCount + FIX_BLOCK_FRAME_DELAY
               THEN [board |-> b0, fixed |-> FALSE]
             ELSE [board |-> checkLine(fixBlock([b0 EXCEPT !.inGracePeriod = FALSE],
                                                block)),
                   fixed |-> TRUE]
      ELSE [board |-> b0, fixed |-> FALSE]

RECURSIVE calcLandingPointFrom(_, _, _)
calcLandingPointFrom(board, block, y) ==
  IF y > board.height THEN y
  ELSE IF ~checkBlock(board, At(block, block.location.x, y)) THEN y - 1
  ELSE calcLandingPointFrom(board, block, y + 1)

\* calcLandingPoint without the step back to the last accepted row.
calcLandingPointBelow(board, block) == calcLandingPointFrom(board, block, 0) + 1

\* Board.calcLandingPoint(), block being the Block that board.block refers to.
calcLandingPoint(board, block) == calcLandingPointFrom(board, block, 0)

(***************************************************************************)
(* The sketch (main.ts).  Its handlers are operators on the record         *)
(*   m = [board, block, nextBlock, stockedBlock, detached]                   *)
(* of the sketch's variables; m.detached is the Block that board.block     *)
(* refers to when that is no longer the sketch's block (NullBlock          *)
(* otherwise).                                                             *)
(***************************************************************************)
\* The Block that board.block refers to.
boardBlock(m) == IF m.board.block = "block" THEN m.block ELSE m.detached

\* moveLeft without the call of checkBlock.
moveLeftUnchecked(m) == [m EXCEPT !.block.location.x = @ - 1]

moveLeft(m) ==
  IF checkBlock(m.board, At(m.block, m.block.location.x - 1, m.block.location.y))
    THEN [m EXCEPT !.block.location.x = @ - 1]
  ELSE m

moveRight(m) ==
  IF checkBlock(m.board, At(m.block, m.block.location.x + 1, m.block.location.y))
    THEN [m EXCEPT !.block.location.x = @ + 1]
  ELSE m

moveDown(m) ==
  IF checkBlock(m.board, At(m.block, m.block.location.x, m.block.location.y + 1))
    THEN [m EXCEPT !.block.location.y = @ + 1]
  ELSE m

rotateLeft(m) ==
  IF checkBlock(m.board, [m.block EXCEPT !.rotation = (m.block.rotation + 1) % 4])
    THEN [m EXCEPT !.block.rotation = (m.block.rotation + 1) % 4]
  ELSE m

rotateRight(m) ==
  IF checkBlock(m.board, [m.block EXCEPT !.rotation = (m.block.rotation + 3) % 4])
    THEN [m EXCEPT !.block.rotation = (m.block.rotation + 3) % 4]
  ELSE m

\* The Block that board.block refers to, replaced by block.
withBoardBlock(m, block) ==
  IF m.board.block = "block" THEN [m EXCEPT !.block = block]
  ELSE [m EXCEPT !.detached = block]

\* The first two lines of Board.fallBlock: the Block that board.block refers
\* to is put on its landing point.
fallBlockMove(m) ==
  LET b == boardBlock(m)
  IN  withBoardBlock(m, [b EXCEPT !.location.y = calcLandingPoint(m.board, b)])

\* The Block referred to as ref ("block" or "detached").
refBlock(m, ref) == IF ref = "block" THEN m.block ELSE m.detached

\* The sketch after a call of board.setBlock that has made the board r.board
\* and returned r.fixed.
afterSetBlock(m, ref, r) ==
  [m |-> [m EXCEPT !.board = r.board,
                   !.detached = IF ref = "block" THEN NullBlock ELSE @],
   fixed |-> r.fixed]

\* board.setBlock(b), b being the Block referred to as ref: the sketch after
\* the call and what the call returns.
callSetBlock(m, ref, frameCount) ==
  afterSetBlock(m, ref, setBlock(m.board, ref, refBlock(m, ref), frameCount))

\* Board.fallBlock().  board.block is set by the first block.update(), which
\* runs before any frame whose count is a multiple of 3.
fallBlock(m, frameCount) ==
  IF m.board.block = "undefined" THEN m
  ELSE callSetBlock(fallBlockMove(m), m.board.block, frameCount).m

\* The gravity tick that never moves the Block.
updateMoveNever(m, frameCount) == m

\* The gravity tick with 60 / speed rounded to the nearest integer.
updateMoveRounded(m, frameCount) ==
  LET moveFrame == (120 * m.block.speed.d + m.block.speed.n) \div (2 * m.block.speed.n)
  IN  IF frameCount % moveFrame = 0
         /\ checkBlock(m.board,
                       At(m.block, m.block.location.x, m.block.location.y + 1))
        THEN [m EXCEPT !.block.location.y = @ + 1]
      ELSE m

\* The gravity tick of Block.update: moveFrame is Math.trunc(60 / speed).
updateMove(m, frameCount) ==
  LET moveFrame == (60 * m.block.speed.d) \div m.block.speed.n
  IN  IF frameCount % moveFrame = 0
         /\ checkBlock(m.board,
                       At(m.block, m.block.location.x, m.block.location.y + 1))
        THEN [m EXCEPT !.block.location.y = @ + 1]
      ELSE m

\* block.update(): the sketch after the call and what the call returns.
update(m, frameCount) == callSetBlock(updateMove(m, frameCount), "block", frameCount)

\* stockSwap without the copy of the stocked Block: the Block gets its own
\* shape back.
stockSwapNoCopy(m, next) ==
  LET blockLocation == m.block.location
      m1 == IF m.stockedBlock = NullBlock
              THEN [m EXCEPT !.stockedBlock = NewBlock(m.block.shape),
                             !.block.shape = m.nextBlock.shape,
                             !.nextBlock = next]
            ELSE [m EXCEPT !.stockedBlock.shape = m.block.shape]
  IN  [m1 EXCEPT !.stockedBlock.location = BLOCK_GENERATE_LOCATION,
                 !.block.location = blockLocation]

\* stock() up to its call of board.setBlock; next is the Block that
\* generateRandomBlock returns when the stock is empty.
stockSwap(m, next) ==
  LET blockLocation == m.block.location
      m1 == IF m.stockedBlock = NullBlock
              THEN [m EXCEPT !.stockedBlock = NewBlock(m.block.shape),
                             !.block.shape = m.nextBlock.shape,
                             !.nextBlock = next]
            ELSE [m EXCEPT !.stockedBlock.shape = m.block.shape,
                           !.block.shape = m.stockedBlock.shape]
  IN  [m1 EXCEPT !.stockedBlock.location = BLOCK_GENERATE_LOCATION,
                 !.block.location = blockLocation]

\* stock()
stock(m, next, frameCount) == callSetBlock(stockSwap(m, next), "block", frameCount).m

\* reset that keeps the board and the stocked Block.
resetBlocksOnly(m, first, next) == [m EXCEPT !.block = first, !.nextBlock = next]

\* reset(), with the two Blocks that generateRandomBlock returns.
reset(m, first, next) ==
  [board |-> NewBoard(m.board.width, m.board.height), block |-> first,
   nextBlock |-> next, stockedBlock |-> NullBlock, detached |-> NullBlock]

\* The body of "if (block.update())" in p.draw: the fixed Block is replaced;
\* board.block goes on referring to it.
nextPiece(m, next) ==
  [m EXCEPT !.detached = m.block, !.board.block = "detached",
            !.block = m.nextBlock, !.nextBlock = next]

\* The line of Board.update that sets the speed of the Block board.block
\* refers to: deletedLineCount / 20 + 0.5, which is (deletedLineCount + 10) / 20.
boardUpdate(m) ==
  IF m.board.block = "undefined" THEN m
  ELSE withBoardBlock(m, [boardBlock(m) EXCEPT
                            !.speed = [n |-> m.board.deletedLineCount + 10, d |-> 20]])

(***************************************************************************)
(* The state: the sketch's variables, p5's frameCount, the place p.draw    *)
(* has reached (pc), and what is recorded of the run for the properties:   *)
(*   ret   what the last part of p.draw, or the last call, did: the keys   *)
(*         held down, whether the sketch changed (after block.update:      *)
(*         whether it returned true), whether the stock was filled         *)
(*         before, the Blocks fixed and the lines deleted;                 *)
(*   rest  the frame at which the sketch's block came to rest (NoFrame     *)
(*         while it can move down);                                        *)
(*   drop  the last fallBlock of the sketch's block.                       *)
(***************************************************************************)
VARIABLES frameCount, pc, board, block, nextBlock, stockedBlock, detached,
          ret, rest, drop

vars == <<frameCount, pc, board, block, nextBlock, stockedBlock, detached,
          ret, rest, drop>>

sketch ==
  [board |-> board, block |-> block, nextBlock |-> nextBlock,
   stockedBlock |-> stockedBlock, detached |-> detached]

NoFrame == Undefined
NoDrop == [frame |-> NoFrame, commits |-> 0, held |-> TRUE, live |-> FALSE]
NoRet ==
  [op |-> "none", keys |-> {}, ok |-> FALSE, filled |-> FALSE, fixes |-> <<>>,
   lines |-> <<>>]

\* Whether the sketch's block cannot move one row down.
Resting(m) ==
  ~checkBlock(m.board, At(m.block, m.block.location.x, m.block.location.y + 1))

\* The placement of a Block: what a move, a rotation or a stock changes.
Placement(b) == <<b.shape, b.rotation, b.location>>

\* The record of a run: t.m is the sketch, the rest is what is recorded.
Tracked(m, r, d) == [m |-> m, rest |-> r, drop |-> d, fixes |-> <<>>, lines |-> <<>>]

\* A handler has made m1 of t.m at frame frameCount without calling setBlock.
Seen(t, m1, fc) ==
  [t EXCEPT
     !.m = m1,
     !.rest = IF ~Resting(m1) THEN NoFrame
              ELSE IF t.rest = NoFrame THEN fc
              ELSE t.rest,
     !.drop = IF t.drop.live /\ Placement(m1.block) # Placement(t.m.block)
                THEN NoDrop
              ELSE t.drop]

\* The lines a checkLine starting at line y deletes, in order: the line, the
\* field before, the field after and what the deletion adds to the count.
RECURSIVE deletedLines(_, _)
deletedLines(b, y) ==
  IF y <= 0 THEN <<>>
  ELSE IF completed(b, y)
    THEN <<[y |-> y, before |-> b.field, after |-> deleteLine(b, y).field,
            counted |-> deleteLine(b, y).deletedLineCount - b.deletedLineCount]>>
           \o deletedLines(deleteLine(b, y), y)
  ELSE deletedLines(b, y - 1)

\* Whether field holds the cells of block that lie on the board.
Holds(field, width, b) ==
  \A i \in 0..7 :
    LET loc == getRoatatedLocation(i, b)
        j == loc.y * width + loc.x
    IN  b.shape[i + 1] # 0 /\ j >= 0 => ArrayGet(field, j) = b.shape[i + 1]

\* The lines deleted when the Block referred to as ref is fixed.
Gone(t, ref) ==
  deletedLines(fixBlock(t.m.board, refBlock(t.m, ref)), t.m.board.height)

\* What is recorded of a call of board.setBlock that has made t1 of t.
Recorded(t, t1, ref, fc, fixed) ==
  IF ~fixed THEN t1
  ELSE [t1 EXCEPT
          !.fixes = @ \o <<[ref |-> ref,
                            age |-> IF ref = "block" THEN fc - t.rest ELSE 0]>>,
          !.lines = @ \o Gone(t, ref),
          !.drop = IF t.drop.live /\ ref = "block"
                     THEN [t.drop EXCEPT
                             !.commits = @ + 1,
                             !.held = Gone(t, ref) # <<>>
                                      \/ Holds(t1.m.board.field, t1.m.board.width,
                                               refBlock(t.m, ref))]
                   ELSE t.drop]

\* A call of board.setBlock has made r of t.m.
Committed(t, ref, fc, r) == Recorded(t, Seen(t, r.m, fc), ref, fc, r.fixed)

\* board.setBlock on the Block referred to as ref, recorded.
Commit(t, ref, fc) == Committed(t, ref, fc, callSetBlock(t.m, ref, fc))

\* The record of a fallBlock that has made t1, of the Block referred to as ref.
Dropped(t1, ref, fc) ==
  IF ref = "block"
    THEN [t1 EXCEPT !.drop = [frame |-> fc, commits |-> 0, held |-> TRUE,
                              live |-> TRUE]]
  ELSE t1

\* fallBlock(), recorded.
Fall(t, fc) ==
  IF t.m.board.block = "undefined" THEN t
  ELSE Commit(Dropped(Seen(t, fallBlockMove(t.m), fc), t.m.board.block, fc),
              t.m.board.block, fc)

\* The four tests of moveKeyCheck, keys being the keys that are down.
ArrowLeft(t, keys, fc) == IF "left" \in keys THEN Seen(t, moveLeft(t.m), fc) ELSE t
ArrowRight(t, keys, fc) == IF "right" \in keys THEN Seen(t, moveRight(t.m), fc) ELSE t
ArrowUp(t, keys, fc) == IF "up" \in keys THEN Fall(t, fc) ELSE t
ArrowDown(t, keys, fc) == IF "down" \in keys THEN Seen(t, moveDown(t.m), fc) ELSE t

\* moveKeyCheck()
moveKeyCheck(t, keys, fc) ==
  ArrowDown(ArrowUp(ArrowRight(ArrowLeft(t, keys, fc), keys, fc), keys, fc), keys, fc)

\* The four tests of operationKeyCheck, keys being the keys that are down and
\* g1, g2, g3 the Blocks generateRandomBlock returns to reset and to stock.
KeyX(t, keys, fc) == IF "x" \in keys THEN Seen(t, rotateRight(t.m), fc) ELSE t
KeyZ(t, keys, fc) == IF "z" \in keys THEN Seen(t, rotateLeft(t.m), fc) ELSE t
KeyR(t, keys, g1, g2, fc) ==
  IF "r" \in keys
    THEN [Seen([t EXCEPT !.rest = NoFrame], reset(t.m, g1, g2), fc)
            EXCEPT !.drop = NoDrop]
  ELSE t
KeyA(t, keys, g3, fc) ==
  IF "a" \in keys THEN Commit(Seen(t, stockSwap(t.m, g3), fc), "block", fc)
  ELSE t

\* operationKeyCheck()
operationKeyCheck(t, keys, g1, g2, g3, fc) ==
  KeyA(KeyR(KeyZ(KeyX(t, keys, fc), keys, fc), keys, g1, g2, fc), keys, g3, fc)

\* The body of "if (block.update())" in p.draw, recorded.
NextPiece(t, g, fc) ==
  [Seen([t EXCEPT !.rest = NoFrame], nextPiece(t.m, g), fc)
     EXCEPT !.drop = [t.drop EXCEPT !.live = FALSE]]

\* board.update(), recorded.
BoardUpdate(t) == [t EXCEPT !.m = boardUpdate(t.m)]

\* p.draw after block.update() has made t1: the next Block when it returned
\* true, and board.update().
afterUpdate(t1, g, fc) ==
  BoardUpdate(IF t1.fixes # <<>> THEN NextPiece(t1, g, fc) ELSE t1)

\* The rest of p.draw: block.update(), the next Block when it returns true,
\* and board.update().
drawUpdate(t, g, fc) ==
  afterUpdate(Commit(Seen(t, updateMove(t.m, fc), fc), "block", fc), g, fc)

\* The Blocks generateRandomBlock returns.
GeneratedBlocks ==
  {generateRandomBlock(blockType, rotation) :
     blockType \in 0..MaxBlockType, rotation \in 0..MaxRotation}

MoveKeys == {"left", "right", "up", "down"}
OperationKeys == {"x", "z", "r", "a"}
\* The sets of keys held down in a frame: at most one of each kind.
MoveKeySets == {{}} \cup {{k} : k \in MoveKeys}
OperationKeySets == {{}} \cup {{k} : k \in OperationKeys}

Become(t, p, r) ==
  /\ board' = t.m.board
  /\ block' = t.m.block
  /\ nextBlock' = t.m.nextBlock
  /\ stockedBlock' = t.m.stockedBlock
  /\ detached' = t.m.detached
  /\ rest' = t.rest
  /\ drop' = t.drop
  /\ pc' = p
  /\ ret' = r

\* p.setup
Init ==
  /\ frameCount = 0
  /\ pc = "idle"
  /\ board = NewBoard(Width, Height)
  /\ block \in GeneratedBlocks
  /\ nextBlock \in GeneratedBlocks
  /\ stockedBlock = NullBlock
  /\ detached = NullBlock
  /\ ret = NoRet
  /\ rest = IF Resting([board |-> board, block |-> block]) THEN 0 ELSE NoFrame
  /\ drop = NoDrop

\* A click on one of the five buttons, between two frames.
Click(m1) ==
  /\ pc = "idle"
  /\ frameCount' = frameCount
  /\ Become(Seen(Tracked(sketch, rest, drop), m1, frameCount), "idle", ret)

MoveLeftClick == Click(moveLeft(sketch))
MoveRightClick == Click(moveRight(sketch))
MoveDownClick == Click(moveDown(sketch))
RotateLeftClick == Click(rotateLeft(sketch))
RotateRightClick == Click(rotateRight(sketch))

\* What a part of p.draw that has made t1 leaves in ret.
Ret(t1, op, keys, ok, filled) ==
  [op |-> op, keys |-> keys, ok |-> ok, filled |-> filled,
   fixes |-> t1.fixes, lines |-> t1.lines]

\* moveKeyCheck has made t1.
MoveKeysChecked(t1, keys) ==
  Become(t1, "operationKeyCheck",
         Ret(t1, "moveKeyCheck", keys, t1.m # sketch, FALSE))

\* operationKeyCheck has made t1.
OperationKeysChecked(t1, keys) ==
  Become(t1, "update",
         Ret(t1, "operationKeyCheck", keys, t1.m # sketch, stockedBlock # NullBlock))

\* block.update() and board.update() have made t1.
Updated(t1) == Become(t1, "idle", Ret(t1, "update", {}, t1.fixes # <<>>, FALSE))

\* The frame's part of p.draw has made t1 of t, the keys being keySets.
MoveKeyCheckFrame(t, keySets) ==
  \E keys \in keySets : MoveKeysChecked(moveKeyCheck(t, keys, frameCount'), keys)

\* The first part of p.draw with the move keys checked in every frame.
DrawMoveKeyCheckEveryFrame(keySets, lastFrame) ==
  /\ pc = "idle"
  /\ frameCount < lastFrame
  /\ frameCount' = frameCount + 1
  /\ MoveKeyCheckFrame(Tracked(sketch, rest, IF drop.live THEN drop ELSE NoDrop),
                       keySets)

\* p.draw, first part: p5 counts the frame, then the move keys are checked.
\* keySets are the sets of keys the player may hold down, lastFrame the last
\* frame drawn.
DrawMoveKeyCheck(keySets, lastFrame) ==
  /\ pc = "idle"
  /\ frameCount < lastFrame
  /\ frameCount' = frameCount + 1
  /\ IF frameCount' % MOVE_KEY_CHECK_FRAME = 0
       THEN MoveKeyCheckFrame(Tracked(sketch, rest, IF drop.live THEN drop ELSE NoDrop),
                              keySets)
     ELSE Become(Tracked(sketch, rest, IF drop.live THEN drop ELSE NoDrop),
                 "operationKeyCheck", NoRet)

\* The Blocks generateRandomBlock returns when it is called (NullBlock stands
\* for no call).
Generated(called) == IF called THEN GeneratedBlocks ELSE {NullBlock}

\* p.draw, second part: the operation keys are checked.
DrawOperationKeyCheck(keySets) ==
  /\ pc = "operationKeyCheck"
  /\ frameCount' = frameCount
  /\ IF frameCount % ROTATION_KEY_CHECK_FRAME = 0
       THEN \E keys \in keySets :
            \E g1 \in Generated("r" \in keys) :
            \E g2 \in Generated("r" \in keys) :
            \E g3 \in Generated("a" \in keys /\ stockedBlock = NullBlock) :
              OperationKeysChecked(
                operationKeyCheck(Tracked(sketch, rest, drop), keys, g1, g2, g3,
                                  frameCount),
                keys)
     ELSE Become(Tracked(sketch, rest, drop), "update", NoRet)

\* p.draw, last part.
DrawUpdate ==
  /\ pc = "update"
  /\ frameCount' = frameCount
  /\ \E g \in Generated(update(sketch, frameCount).fixed) :
       Updated(drawUpdate(Tracked(sketch, rest, drop), g, frameCount))

\* A session played with every control.
Next ==
  \/ MoveLeftClick
  \/ MoveRightClick
  \/ MoveDownClick
  \/ RotateLeftClick
  \/ RotateRightClick
  \/ DrawMoveKeyCheck(MoveKeySets, MaxFrame)
  \/ DrawOperationKeyCheck(OperationKeySets)
  \/ DrawUpdate

Spec == Init /\ [][Next]_vars

\* A longer session in which the player clicks the right and down buttons and
\* holds the stock key down, or no key.
NextStock ==
  \/ MoveRightClick
  \/ MoveDownClick
  \/ DrawMoveKeyCheck({{}}, MaxStockFrame)
  \/ DrawOperationKeyCheck({{}, {"a"}})
  \/ DrawUpdate

SpecStock == Init /\ [][NextStock]_vars

\* A longer session in which the player clicks the rotate right and down
\* buttons and holds the hard drop key down, or no key.
NextDrop ==
  \/ RotateRightClick
  \/ MoveDownClick
  \/ DrawMoveKeyCheck({{}, {"up"}}, MaxDropFrame)
  \/ DrawOperationKeyCheck({{}})
  \/ DrawUpdate

SpecDrop == Init /\ [][NextDrop]_vars

\* A session in which the player clicks the down button and holds the stock
\* key or the reset key down, or no key.
NextReset ==
  \/ MoveDownClick
  \/ DrawMoveKeyCheck({{}}, MaxResetFrame)
  \/ DrawOperationKeyCheck({{}, {"a"}, {"r"}})
  \/ DrawUpdate

SpecReset == Init /\ [][NextReset]_vars

\* A session in which the player clicks the right and down buttons and holds
\* the stock key or the hard drop key down, or no key.
NextStockDrop ==
  \/ MoveRightClick
  \/ MoveDownClick
  \/ DrawMoveKeyCheck({{}, {"up"}}, MaxStockDropFrame)
  \/ DrawOperationKeyCheck({{}, {"a"}})
  \/ DrawUpdate

SpecStockDrop == Init /\ [][NextStockDrop]_vars

(***************************************************************************)
(* Calls of single methods, on the Blocks and Boards drawn by the initial  *)
(* condition.                                                              *)
(***************************************************************************)
\* A session in which the player holds any key down, or none, and clicks the
\* left button.
NextKeys ==
  \/ MoveLeftClick
  \/ DrawMoveKeyCheck(MoveKeySets, MaxKeyFrame)
  \/ DrawOperationKeyCheck(OperationKeySets)
  \/ DrawUpdate

SpecKeys == Init /\ [][NextKeys]_vars

\* The frames a Block lives at most when no key is down: it comes to rest
\* after at most Height + 1 gravity ticks, 120 frames apart at most (speed is
\* 0.5 or more), and is fixed FIX_BLOCK_FRAME_DELAY frames later.
IdleLife == 120 * (Height + 2) + FIX_BLOCK_FRAME_DELAY

\* The last frame drawn in a session without a player: the first frame from
\* MaxIdleFrame on at which block.update() returns true, and frame
\* MaxIdleFrame + IdleLife if there is none.
LastIdleFrame ==
  IF frameCount >= MaxIdleFrame /\ ret.op = "update" /\ ret.ok THEN frameCount
  ELSE MaxIdleFrame + IdleLife

\* A session without a player: no click, no key down.
NextIdle ==
  \/ DrawMoveKeyCheck({{}}, LastIdleFrame)
  \/ DrawOperationKeyCheck({{}})
  \/ DrawUpdate

\* The last part of p.draw runs: a step of NextIdle that takes pc from
\* "update" to "idle" is a step of DrawUpdate, and DrawUpdate can be taken
\* whenever pc is "update".
UpdateRuns == pc = "update" /\ pc' = "idle"

\* p5 calls p.draw for every frame, and p.draw runs to its end.
SpecIdle ==
  /\ Init
  /\ [][NextIdle]_vars
  /\ WF_vars(DrawMoveKeyCheck({{}}, LastIdleFrame))
  /\ WF_vars(DrawOperationKeyCheck({{}}))
  /\ WF_pc(UpdateRuns)

\* A Block of type blockType placed at (x, y) with rotation r.
Placed(blockType, r, x, y) ==
  [generateBlock(blockType) EXCEPT !.rotation = r, !.location = [x |-> x, y |-> y]]

\* The Blocks a method is called on: every shape and rotation, anchored from
\* two columns left of the board to its last column and from two rows above
\* it to the row below it.
ProbeBlocks ==
  {Placed(blockType, r, x, y) :
     blockType \in 0..6, r \in 0..3, x \in (-2)..(Width - 1), y \in (-2)..Height}

\* The Blocks getRoatatedLocation is called on.
RotateBlocks ==
  {Placed(blockType, r, x, y) :
     blockType \in 0..MaxBlockType, r \in 0..3,
     x \in (-2)..(Width - 1), y \in (-2)..Height}

\* The fields checkBlock is called on: empty, one cell occupied, and full.
CheckFields ==
  LET empty == NewBoard(Width, Height).field
  IN  {empty}
        \cup {[empty EXCEPT ![j] = 7] : j \in 1..(Width * Height)}
        \cup {[j \in 1..(Width * Height + 1) |-> IF j <= Width * Height THEN 1 ELSE 0]}

\* The rows of the fields checkLine is called on: empty, full, and full but
\* for the first cell, the last cell, or both.
LineRows ==
  {[x \in 1..Width |-> 0], [x \in 1..Width |-> 3],
   [x \in 1..Width |-> IF x = 1 THEN 0 ELSE 6],
   [x \in 1..Width |-> IF x = Width THEN 0 ELSE 4],
   [x \in 1..Width |-> IF x \in {1, Width} THEN 0 ELSE 5]}

\* The fields of h such rows, top row first, with no empty row under a row
\* that holds a cell.
RECURSIVE LineFields(_)
LineFields(h) ==
  IF h = 0 THEN {<<0>>}
  ELSE LET pairs == {p \in LineRows \X LineFields(h - 1) :
                       \/ h = 1
                       \/ \A x \in 1..Width : p[1][x] = 0
                       \/ \E x \in 1..Width : p[2][x] # 0}
       IN  {p[1] \o p[2] : p \in pairs}

\* The state in which a method is called on board b and Block blk.
InitCall(b, blk) ==
  /\ frameCount = 0
  /\ pc = "idle"
  /\ board = b
  /\ block = blk
  /\ nextBlock = generateRandomBlock(0, 0)
  /\ stockedBlock = NullBlock
  /\ detached = NullBlock
  /\ ret = NoRet
  /\ rest = NoFrame
  /\ drop = NoDrop

\* block.getRoatatedLocation(i)
CallGetRoatatedLocation ==
  /\ \E i \in 0..7 :
       ret' = [op |-> "getRoatatedLocation", i |-> i,
               loc |-> getRoatatedLocation(i, block)]
  /\ UNCHANGED <<frameCount, pc, board, block, nextBlock, stockedBlock, detached,
                 rest, drop>>

InitRotate == \E blk \in RotateBlocks : InitCall(NewBoard(Width, Height), blk)

SpecRotate == InitRotate /\ [][CallGetRoatatedLocation]_vars

\* board.checkBlock(block)
CallCheckBlock ==
  /\ ret' = [op |-> "checkBlock", ok |-> checkBlock(board, block)]
  /\ UNCHANGED <<frameCount, pc, board, block, nextBlock, stockedBlock, detached,
                 rest, drop>>

\* Every probe on the boards of the model, and the flat shape at (3, 18) and
\* (3, 19) on the empty board of the program's size.
InitCheck ==
  \/ \E field \in CheckFields, blk \in ProbeBlocks :
       InitCall([NewBoard(Width, Height) EXCEPT !.field = field], blk)
  \/ \E y \in {18, 19} :
       InitCall(NewBoard(DEFAULT_WIDTH, DEFAULT_HEIGHT), Placed(1, 0, 3, y))

SpecCheck == InitCheck /\ [][CallCheckBlock]_vars

\* board.calcLandingPoint(), board.block being block.
CallCalcLandingPoint ==
  /\ ret' = [op |-> "calcLandingPoint", y |-> calcLandingPoint(board, block)]
  /\ UNCHANGED <<frameCount, pc, board, block, nextBlock, stockedBlock, detached,
                 rest, drop>>

SpecLanding == InitCheck /\ [][CallCalcLandingPoint]_vars

\* The gravity tick of block.update() at frame frameCount; ret.y is the
\* Block's row before the call.
CallUpdateMove ==
  /\ block' = updateMove(sketch, frameCount).block
  /\ ret' = [op |-> "updateMove", y |-> block.location.y]
  /\ UNCHANGED <<frameCount, pc, board, nextBlock, stockedBlock, detached,
                 rest, drop>>

\* The Blocks the gravity tick is called on: generated Blocks in the spawn
\* column, from the spawn row to the last row.
GravityBlocks ==
  {Placed(blockType, r, BLOCK_GENERATE_LOCATION.x, y) :
     blockType \in 0..MaxBlockType, r \in 0..MaxRotation,
     y \in BLOCK_GENERATE_LOCATION.y..(Height - 1)}

\* The sketch in which board.block is blk, after board.update().
Sped(b, blk) ==
  boardUpdate([board |-> [b EXCEPT !.block = "block"], block |-> blk,
               nextBlock |-> NullBlock, stockedBlock |-> NullBlock,
               detached |-> NullBlock])

\* The gravity tick at every frame, with every count of deleted lines: the
\* Block's speed is the one the last board.update() gave it.
InitGravity ==
  \E field \in CheckFields, blk \in GravityBlocks,
     count \in 0..MaxDeletedLineCount, frame \in 0..MaxGravityFrame :
    /\ frameCount = frame
    /\ pc = "idle"
    /\ board = [NewBoard(Width, Height) EXCEPT
                  !.field = field, !.block = "block", !.deletedLineCount = count]
    /\ block = Sped([NewBoard(Width, Height) EXCEPT !.deletedLineCount = count],
                    blk).block
    /\ nextBlock = generateRandomBlock(0, 0)
    /\ stockedBlock = NullBlock
    /\ detached = NullBlock
    /\ ret = NoRet
    /\ rest = NoFrame
    /\ drop = NoDrop

SpecGravity == InitGravity /\ [][CallUpdateMove]_vars

\* board.checkLine()
CallCheckLine ==
  /\ board' = checkLine(board)
  /\ ret' = [op |-> "checkLine", lines |-> deletedLines(board, board.height)]
  /\ UNCHANGED <<frameCount, pc, block, nextBlock, stockedBlock, detached,
                 rest, drop>>

InitLine ==
  \E field \in LineFields(Height) :
    InitCall([NewBoard(Width, Height) EXCEPT !.field = field],
             generateRandomBlock(0, 0))

SpecLine == InitLine /\ [][CallCheckLine]_vars

(***************************************************************************)
(* Properties                                                              *)
(***************************************************************************)
\* What checkBlock is to tell of block on board b: every nonzero cell of the
\* shape is inside the side walls, above the floor, and either above the
\* board or on an empty cell of the field.
Fits(b, blk) ==
  \A i \in 0..7 :
    blk.shape[i + 1] # 0 =>
      LET loc == getRoatatedLocation(i, blk)
          j == loc.y * b.width + loc.x
      IN  /\ 0 <= loc.x /\ loc.x < b.width
          /\ loc.y < b.height
          /\ (j < 0 \/ b.field[j + 1] = 0)

\* C1: checkBlock returns true exactly when every nonzero cell of the shape,
\* mapped by getRoatatedLocation, has 0 <= x < width and y < height and is
\* above the board or on an empty cell of the field; on the empty 10 x 20
\* field the flat shape at rotation 0 is accepted at (3, 18) and rejected at
\* (3, 19).
C1_CheckBlock ==
  ret.op = "checkBlock" =>
    /\ ret.ok = Fits(board, block)
    /\ board = NewBoard(DEFAULT_WIDTH, DEFAULT_HEIGHT)
         => ret.ok = (block = Placed(1, 0, 3, 18))

\* A Block accepted with a cell above the board, next to an occupied cell.
C1_Witness ==
  /\ ret.op = "checkBlock"
  /\ ret.ok
  /\ \E i \in 0..7 :
       block.shape[i + 1] # 0 /\ getRoatatedLocation(i, block).y < 0
  /\ \E j \in 1..Len(board.field) : board.field[j] # 0

\* What C8 gives for cell i of a Block of rotation r anchored at (ax, ay).
RotatedCell(i, r, ax, ay) ==
  LET by == i \div 4
      bx == i % 4
  IN  CASE r = 0 -> [x |-> bx + ax, y |-> by + ay]
        [] r = 1 -> [x |-> by + ax + 1, y |-> -bx + ay + 2]
        [] r = 2 -> [x |-> -bx + ax + 3, y |-> -by + ay + 1]
        [] r = 3 -> [x |-> -by + ax + 2, y |-> bx + ay - 1]

\* C8: for every rotation, cell index and anchor, getRoatatedLocation returns
\* the cell the four formulas give.
C8_RotatedLocation ==
  ret.op = "getRoatatedLocation" =>
    ret.loc = RotatedCell(ret.i, block.rotation, block.location.x, block.location.y)

\* The last cell of a Block of rotation 3 has been located.
C8_Witness ==
  /\ ret.op = "getRoatatedLocation"
  /\ ret.i = 7
  /\ block.rotation = 3
  /\ ret.loc = [x |-> block.location.x + 1, y |-> block.location.y + 2]

\* Cell 5 of a Block anchored at (3, 0) with rotation 0 has been located.
C9_Witness ==
  /\ ret.op = "getRoatatedLocation"
  /\ ret.i = 5
  /\ block.rotation = 0
  /\ block.location = [x |-> 3, y |-> 0]

\* C9 as stated: for a Block anchored at (3, 0) with rotation 0, the location
\* of cell 5 is (x = 1, y = 1).
C9_AsStated == C9_Witness => ret.loc = [x |-> 1, y |-> 1]

\* C9 as amended: for a Block anchored at (3, 0) with rotation 0, the
\* location of cell 5 is (x = 4, y = 1): the anchor's x is added to the
\* cell's column.
C9_Amended == C9_Witness => ret.loc = [x |-> 4, y |-> 1]

\* Whether line y of field is a row of the board with every cell occupied.
FullRow(b, y) ==
  \A x \in 0..(b.width - 1) : ArrayGet(b.field, y * b.width + x) \in 1..7

\* C3: after checkLine returns, no row of the field, 0..height-1, has all
\* of its cells nonzero.
C3_NoFullRow ==
  ret.op = "checkLine" => \A y \in 0..(board.height - 1) : ~FullRow(board, y)

\* A command that asks for target leaves the Block as it is when checkBlock
\* rejects target, makes it target when checkBlock accepts it, and changes
\* nothing else.
AllOrNothing(target) ==
  /\ block' = IF checkBlock(board, target) THEN target ELSE block
  /\ UNCHANGED <<board, nextBlock, stockedBlock, detached>>

\* The part of p.draw just run has checked the keys, with only key down.
OnlyKey(r, op, key) == r.op = op /\ r.keys = {key}

\* C6: a move or a rotation, by a button or by its key alone, is all or
\* nothing: rejected by checkBlock it changes neither location nor rotation,
\* accepted it makes the one change asked for (x-1, x+1, y+1, rotation+1 mod
\* 4, rotation+3 mod 4), and nothing else of the Block or the field changes.
C6_AllOrNothing ==
  [][/\ MoveLeftClick \/ OnlyKey(ret', "moveKeyCheck", "left")
          => AllOrNothing([block EXCEPT !.location.x = @ - 1])
     /\ MoveRightClick \/ OnlyKey(ret', "moveKeyCheck", "right")
          => AllOrNothing([block EXCEPT !.location.x = @ + 1])
     /\ MoveDownClick \/ OnlyKey(ret', "moveKeyCheck", "down")
          => AllOrNothing([block EXCEPT !.location.y = @ + 1])
     /\ RotateLeftClick \/ OnlyKey(ret', "operationKeyCheck", "z")
          => AllOrNothing([block EXCEPT !.rotation = (@ + 1) % 4])
     /\ RotateRightClick \/ OnlyKey(ret', "operationKeyCheck", "x")
          => AllOrNothing([block EXCEPT !.rotation = (@ + 3) % 4])]_vars

\* The rotate left key has been checked and the rotation rejected.
C6_Witness ==
  /\ OnlyKey(ret, "operationKeyCheck", "z")
  /\ ~ret.ok
  /\ ~checkBlock(board, [block EXCEPT !.rotation = (@ + 1) % 4])

\* C7: stock with an empty stock puts the Block's shape into the stock,
\* gives the Block the next Block's shape at the Block's location and
\* generates a new next Block; stock with a filled stock swaps the shapes
\* of the Block and the stocked Block, keeps the Block's location and leaves
\* the next Block as it is.
C7_Stock ==
  [][OnlyKey(ret', "operationKeyCheck", "a") =>
       /\ stockedBlock'.shape = block.shape
       /\ block'.location = block.location
       /\ IF stockedBlock = NullBlock
            THEN /\ block'.shape = nextBlock.shape
                 /\ nextBlock' \in GeneratedBlocks
          ELSE /\ block'.shape = stockedBlock.shape
               /\ nextBlock' = nextBlock]_vars

\* The stock key has been checked with the stock filled, and two different
\* shapes have changed places.
C7_Witness ==
  /\ OnlyKey(ret, "operationKeyCheck", "a")
  /\ ret.filled
  /\ stockedBlock.shape # block.shape

\* C4: every line checkLine deletes adds exactly 1 to the count and is a row
\* of the field whose cells are all nonzero; the rows above it move down by
\* one row unchanged, a row of zeros comes on top, the rows below it stay.
C4_DeletedLines ==
  \A k \in 1..Len(ret.lines) :
    LET r == ret.lines[k]
        w == board.width
        cell(f, x, y) == ArrayGet(f, y * w + x)
    IN  /\ r.counted = 1
        /\ r.y \in 0..(board.height - 1)
        /\ \A x \in 0..(w - 1) :
             /\ cell(r.before, x, r.y) \in 1..7
             /\ cell(r.after, x, 0) = 0
             /\ \A y \in 1..r.y : cell(r.after, x, y) = cell(r.before, x, y - 1)
             /\ \A y \in (r.y + 1)..(board.height - 1) :
                  cell(r.after, x, y) = cell(r.before, x, y)

\* C10: the field is a sequence of width * height + 1 cells, each 0..7.
C10_Field ==
  /\ Len(board.field) = board.width * board.height + 1
  /\ \A j \in 1..Len(board.field) : board.field[j] \in 0..7

\* C5: the sketch's Block is never fixed fewer than FIX_BLOCK_FRAME_DELAY
\* frames after the frame at which it came to rest.
C5_LockDelay ==
  \A k \in 1..Len(ret.fixes) :
    ret.fixes[k].ref = "block" => ret.fixes[k].age >= FIX_BLOCK_FRAME_DELAY

\* C2: once a Block dropped by fallBlock has been left alone for
\* FIX_BLOCK_FRAME_DELAY frames, or has been replaced by the next Block, it
\* has been fixed exactly once, and the field held its cells after that
\* (those on the board, unless a line was deleted).
C2_DropCommitsOnce ==
  /\ drop.frame # NoFrame
  /\ pc = "idle"
  /\ ~drop.live \/ frameCount >= drop.frame + FIX_BLOCK_FRAME_DELAY
  => drop.commits = 1 /\ drop.held

C12_FallNeverFixes ==
  OnlyKey(ret, "moveKeyCheck", "up") => ret.fixes = <<>>

\* C13: whenever inGracePeriod is true after the setBlock call of
\* block.update, the sketch's Block cannot move one row down.
C13_GraceOnlyWhileResting ==
  [][pc = "update" /\ board'.inGracePeriod
       => ~checkBlock(board', At(block', block'.location.x, block'.location.y + 1))]_vars

\* C15: in every part of p.draw, each Block that setBlock fixes is the
\* sketch's Block, never a Block fixed before, and the part ends with the
\* next Block in its place.
C15_FixedBlockReplaced ==
  [][pc' # pc =>
       \A k \in 1..Len(ret'.fixes) :
         /\ ret'.fixes[k].ref = "block"
         /\ block' = nextBlock
         /\ board'.block = "detached"]_vars

\* C16: whenever fallBlock runs, the Block that board.block refers to is the
\* sketch's Block.
C16_FallMovesTheBlock ==
  [][pc = "idle" /\ OnlyKey(ret', "moveKeyCheck", "up") => board.block = "block"]_vars

\* C14: in every state the sketch's Block is in a configuration that
\* checkBlock accepts.
C14_BlockFits == checkBlock(board, block)

\* The rows y in 0..height at which checkBlock rejects blk, its x, rotation
\* and shape kept.
RejectedRows(b, blk) ==
  {y \in 0..b.height : ~checkBlock(b, At(blk, blk.location.x, y))}

\* The least element of a set of integers that has one.
Least(S) == CHOOSE y \in S : \A z \in S : y <= z

\* C17: calcLandingPoint returns one less than the smallest y in 0..height at
\* which checkBlock fails; the result is in -1..height-1 and checkBlock
\* accepts every y from 0 up to the result.
C17_LandingPoint ==
  ret.op = "calcLandingPoint" =>
    /\ RejectedRows(board, block) # {}
    /\ ret.y = Least(RejectedRows(board, block)) - 1
    /\ ret.y \in (-1)..(board.height - 1)
    /\ \A y \in 0..ret.y : checkBlock(board, At(block, block.location.x, y))

\* calcLandingPoint has returned a row below the first, under which the
\* field, not the floor, stops the Block.
C17_Witness ==
  /\ ret.op = "calcLandingPoint"
  /\ ret.y > 0
  /\ ret.y + 1 < board.height
  /\ \E j \in 1..Len(board.field) : board.field[j] # 0

\* C18: a hard drop of the sketch's Block never moves it upward: after
\* fallBlock its y is not less than before, its x and rotation are as before,
\* and checkBlock accepts every position below the old y down to the new one.
C18_FallNeverUp ==
  [][pc = "idle" /\ OnlyKey(ret', "moveKeyCheck", "up") /\ board.block = "block" =>
       /\ block'.location.y >= block.location.y
       /\ block'.location.x = block.location.x
       /\ block'.rotation = block.rotation
       /\ \A y \in (block.location.y + 1)..block'.location.y :
            checkBlock(board, At(block, block.location.x, y))]_vars

\* The interval of the gravity tick the statement gives: 60 / speed rounded
\* to the nearest integer, speed being deletedLineCount / 20 + 0.5.
RoundedMoveFrame(count) == (2 * 60 * 20 + (count + 10)) \div (2 * (count + 10))

\* The interval with 60 / speed truncated.
TruncatedMoveFrame(count) == (60 * 20) \div (count + 10)

\* Whether the last call of the gravity tick, made with the interval
\* moveFrame, moved the Block down one row exactly when the frame is a
\* multiple of moveFrame and the row below is accepted by checkBlock, and
\* left it alone otherwise.
TicksEvery(moveFrame) ==
  /\ block.speed = [n |-> board.deletedLineCount + 10, d |-> 20]
  /\ block.location.x = BLOCK_GENERATE_LOCATION.x
  /\ block.location.y =
       IF frameCount % moveFrame = 0
          /\ checkBlock(board, At(block, block.location.x, ret.y + 1))
         THEN ret.y + 1
       ELSE ret.y

\* C19 as stated: with speed = deletedLineCount / 20 + 0.5, the gravity tick
\* moves the Block down one row exactly on the frames that are multiples of
\* round(60 / speed) and at which the row below is accepted by checkBlock.
C19_AsStated ==
  ret.op = "updateMove" => TicksEvery(RoundedMoveFrame(board.deletedLineCount))

\* C19 amended: the same with trunc(60 / speed) for round(60 / speed).
C19_Amended ==
  ret.op = "updateMove" => TicksEvery(TruncatedMoveFrame(board.deletedLineCount))

\* The tick moved the Block at a frame that is a multiple of trunc(60 / speed)
\* and not of round(60 / speed).
C19_Witness ==
  /\ ret.op = "updateMove"
  /\ block.location.y = ret.y + 1
  /\ frameCount > 0
  /\ frameCount % RoundedMoveFrame(board.deletedLineCount) # 0

\* block.update() has just fixed a Block into the field and p.draw has put
\* the next Block in its place.
FixedAndReplaced ==
  /\ pc = "idle"
  /\ ret.op = "update"
  /\ ret.ok
  /\ Len(ret.fixes) = 1
  /\ ret.fixes[1].ref = "block"
  /\ board.block = "detached"
  /\ Holds(board.field, board.width, detached)
  /\ block.location = BLOCK_GENERATE_LOCATION

\* C20: with no click and no key down, and p.draw called for every frame, the
\* Block that is the sketch's Block when a frame's block.update() is about to
\* run is later fixed into the field and replaced by the next Block, whether
\* or not the place it was generated at is free.
C20_EventuallyFixed ==
  (pc = "update" /\ frameCount <= MaxIdleFrame) ~> FixedAndReplaced

\* A Block has been fixed at the place it was generated at, and the Block
\* that replaces it lies on fixed cells there.
C20_Witness ==
  /\ FixedAndReplaced
  /\ frameCount < MaxIdleFrame
  /\ detached.location = BLOCK_GENERATE_LOCATION
  /\ ~checkBlock(board, block)

\* The parts of p.draw, in the order in which they run.
DrawOrder ==
  {<<"idle", "operationKeyCheck">>, <<"operationKeyCheck", "update">>,
   <<"update", "idle">>}

\* Whether the step leaves the column, the rotation and the shape of the
\* sketch's Block as they are.
Steady ==
  /\ block'.location.x = block.location.x
  /\ block'.rotation = block.rotation
  /\ block'.shape = block.shape

\* C21: the parts of p.draw run in the order move keys, operation keys,
\* block.update(); the move keys act only in frames that are multiples of 3
\* and the operation keys only in frames that are multiples of 5, and in any
\* other frame that part of p.draw changes nothing of the sketch; the gravity
\* tick and the commit test of block.update() come last and leave the
\* Block's column and rotation alone, unless the Block is fixed and the next
\* Block takes its place.
C21_KeysRateLimited ==
  [][pc' # pc =>
       /\ <<pc, pc'>> \in DrawOrder
       /\ ret'.op = "moveKeyCheck"
            => pc = "idle" /\ frameCount' % 3 = 0
       /\ ret'.op = "operationKeyCheck"
            => pc = "operationKeyCheck" /\ frameCount' % 5 = 0
       /\ pc = "idle" /\ frameCount' % 3 # 0 => sketch' = sketch
       /\ pc = "operationKeyCheck" /\ frameCount' % 5 # 0 => sketch' = sketch
       /\ pc = "update"
            => /\ ret'.op = "update"
               /\ IF ret'.ok THEN block' = nextBlock ELSE Steady]_vars

\* The x key has turned, in frame 5, a Block that the left key had moved in
\* frame 3.
C21_Witness ==
  /\ frameCount = 5
  /\ OnlyKey(ret, "operationKeyCheck", "x")
  /\ ret.ok
  /\ block.rotation # 0
  /\ block.location.x = BLOCK_GENERATE_LOCATION.x - 1
  /\ block.location.y = BLOCK_GENERATE_LOCATION.y

====
